---- MODULE Spec2Model ----
(***************************************************************************)
(* Divergence playground: the numerical core (grid math, Gaussian          *)
(* mixtures, divergences, reparameterization) and the cancellable          *)
(* finite-difference optimizer fitModelToTarget.                           *)
(*                                                                         *)
(* Numbers.  The program computes in IEEE doubles.  Here every real is a   *)
(* fixed-point integer with U units to 1.0 (value v stands for v / U), and *)
(* Math.exp, Math.log and Math.sqrt are computed on that representation    *)
(* with rounding error of a few units, so that conversions are computed    *)
(* and never taken to be exact.  Quantities below the resolution round to  *)
(* 0, as doubles underflow (much later) to 0.                              *)
(***************************************************************************)
EXTENDS Integers, Sequences, FiniteSets, TLC

(***************************************************************************)
(* Fixed-point arithmetic                                                  *)
(***************************************************************************)
\* Resolution of the fixed-point reals: 1.0 is U units.
U == 10 * 1000

\* An array built by a constructor, as the array of its elements.
Strict(f) == f \o <<>>

Abs(a) == IF a < 0 THEN -a ELSE a
Sgn(a) == IF a < 0 THEN -1 ELSE 1
Max(a, b) == IF a >= b THEN a ELSE b
Min(a, b) == IF a <= b THEN a ELSE b

\* a / b rounded to the nearest integer, b > 0.
RDiv(a, b) == (a + b \div 2) \div b

\* Largest magnitude whose product with U stays well inside the integers'
\* width.
Wide == 100 * 1000

\* a * b on non-negative fixed-point values (rounded), computed in two parts
\* so that the intermediate products stay inside the integers' width.
MulNN(a, b) ==
  IF a <= b THEN a * (b \div U) + RDiv(a * (b % U), U)
            ELSE b * (a \div U) + RDiv(b * (a % U), U)

FMul(a, b) == Sgn(a) * Sgn(b) * MulNN(Abs(a), Abs(b))

\* a / b on non-negative fixed-point values, b > 0 (rounded).
DivNN(a, b) ==
  IF a < Wide THEN RDiv(a * U, b)
  ELSE IF b < Wide THEN (a \div b) * U + RDiv((a % b) * U, b)
  ELSE RDiv(a, Max(1, b \div U))

FDiv(a, b) == Sgn(a) * Sgn(b) * DivNN(Abs(a), Abs(b))

\* k ln 2 at resolution U (ln 2 = 0.693147).
KLn2(k) == RDiv(k * 693147, 1000000 \div U)

RECURSIVE Pow2(_)
Pow2(n) == IF n <= 0 THEN 1 ELSE 2 * Pow2(n - 1)

\* e^r for r in about [0, ln 2): the Taylor series, term by term.
RECURSIVE ExpSeries(_, _, _, _)
ExpSeries(r, term, n, acc) ==
  IF term = 0 \/ n > 12 THEN acc
  ELSE LET nt == RDiv(term * r, n * U)
       IN  ExpSeries(r, nt, n + 1, acc + nt)

\* Largest argument Math.exp is evaluated at without saturating (10.0), and
\* the argument below which the result is under the resolution.
ExpHi == 10 * U
ExpLo == -(10 * U)

\* Math.exp on fixed-point reals: x = k ln 2 + r, e^x = 2^k e^r.
Exp(x) ==
  IF x < ExpLo THEN 0
  ELSE LET y == Min(x, ExpHi)
           k == (y * 100) \div 693147
           r == y - KLn2(k)
           m == ExpSeries(r, U, 1, U)
       IN  IF k >= 0 THEN m * Pow2(k) ELSE RDiv(m, Pow2(-k))

\* The k with y / 2^k in [1, 2), for y >= 1 unit.
RECURSIVE Log2Floor(_)
Log2Floor(y) ==
  IF y >= 2 * U THEN 1 + Log2Floor(y \div 2)
  ELSE IF y < U THEN Log2Floor(2 * y) - 1
  ELSE 0

\* ln m for m in [1, 2): 2 (t + t^3/3 + t^5/5 + t^7/7), t = (m-1)/(m+1),
\* with t kept at ten times the resolution.
LnMantissa(m) ==
  LET V  == 10 * U
      t1 == RDiv((m - U) * V, m + U)
      t2 == RDiv(t1 * t1, V)
      t3 == RDiv(t1 * t2, V)
      t5 == RDiv(t3 * t2, V)
      t7 == RDiv(t5 * t2, V)
  IN  RDiv(2 * (t1 + RDiv(t3, 3) + RDiv(t5, 5) + RDiv(t7, 7)), 10)

\* Math.log on fixed-point reals, y >= 1 unit.
Ln(y) ==
  LET k == Log2Floor(y)
      m == IF k >= 0 THEN RDiv(y, Pow2(k)) ELSE y * Pow2(-k)
  IN  KLn2(k) + LnMantissa(m)

\* The integer square root of n >= 0, by Newton's iteration.
RECURSIVE SqrtIter(_, _, _)
SqrtIter(n, g, fuel) ==
  LET h == (g + n \div g) \div 2
  IN  IF fuel = 0 \/ h >= g THEN g ELSE SqrtIter(n, h, fuel - 1)

ISqrt(n) == IF n <= 0 THEN 0 ELSE SqrtIter(n, Max(n, 1), 40)

\* Math.sqrt on fixed-point reals: sqrt(y / U) = sqrt(y U) / U.
Sqrt(y) == ISqrt(y * U)

\* Math.sqrt(a * b) on fixed-point reals: sqrt(a b / U^2) = sqrt(a b) / U.
SqrtOfProduct(a, b) == ISqrt(a * b)

(***************************************************************************)
(* lib/math: uniform-grid primitives.  Arrays are sequences; index i of the *)
(* program is index i + 1 here.                                            *)
(***************************************************************************)
RECURSIVE SeqSum(_)
SeqSum(y) == IF y = <<>> THEN 0 ELSE Head(y) + SeqSum(Tail(y))

linspace(min, max, n) ==
  LET step == RDiv(max - min, n - 1)
  IN  Strict([i \in 1..n |-> min + (i - 1) * step])

sum(y, dx) == FMul(SeqSum(y), dx)

\* The running sums of cumsum before the drift correction.
RECURSIVE RunningSum(_, _, _)
RunningSum(y, dx, s) ==
  IF y = <<>> THEN <<>>
  ELSE LET s1 == s + FMul(Head(y), dx)
       IN  <<s1>> \o RunningSum(Tail(y), dx, s1)

\* Mutant of DriftCorrected: the running sums are returned as they are.
DriftKept(out, norm) == out

\* out[i] /= norm for every i, if norm > 0.
DriftCorrected(out, norm) ==
  IF norm > 0 THEN Strict([i \in 1..Len(out) |-> FDiv(out[i], norm)]) ELSE out

LastOf(out) == IF Len(out) = 0 THEN 0 ELSE out[Len(out)]

CorrectDrift(out) == DriftCorrected(out, LastOf(out))

cumsum(y, dx) == CorrectDrift(RunningSum(y, dx, 0))

\* y[i] * inv for every i.
ScaleBy(y, inv) == Strict([i \in 1..Len(y) |-> FMul(y[i], inv)])

\* Mutant of InvOf: a sum below 0 is divided by as well.
InvOfMagnitude(s) == IF s # 0 THEN FDiv(U, Abs(s)) ELSE U

\* inv = s > 0 ? 1 / s : 1
InvOf(s) == IF s > 0 THEN FDiv(U, s) ELSE U

normalizeDensity(y, dx) == ScaleBy(y, InvOf(sum(y, dx)))

(***************************************************************************)
(* lib/mixture: Gaussian mixtures.  A component is [mean, sigma, weight].  *)
(***************************************************************************)
RECURSIVE PosWeightSum(_)
PosWeightSum(components) ==
  IF components = <<>> THEN 0
  ELSE Max(0, Head(components).weight) + PosWeightSum(Tail(components))

\* Mutant of WeightsOver: the weight is divided as it is, negative or not.
WeightsOverSigned(components, s) ==
  IF s = 0
  THEN Strict([i \in 1..Len(components) |-> [components[i] EXCEPT !.weight = 0]])
  ELSE Strict([i \in 1..Len(components) |->
                 [components[i] EXCEPT !.weight = FDiv(@, s)]])

\* The components with weights Math.max(0, weight) / s, or 0 when s is 0.
WeightsOver(components, s) ==
  IF s = 0
  THEN Strict([i \in 1..Len(components) |-> [components[i] EXCEPT !.weight = 0]])
  ELSE Strict([i \in 1..Len(components) |->
                 [components[i] EXCEPT !.weight = FDiv(Max(0, @), s)]])

normalizeWeights(components) == WeightsOver(components, PosWeightSum(components))

\* sqrt(2 pi) = Math.SQRT2 * Math.sqrt(Math.PI) at resolution U.
Sqrt2Pi == (25066 * U) \div 10000

\* 0.5 * zs * zs; beyond |zs| = 4.5 the kernel is under the resolution and the
\* square is not formed.
HalfSquare(zs) ==
  IF Abs(zs) >= 45000 THEN -ExpLo + 1 ELSE (zs * zs + U) \div (2 * U)

gaussianPDF(x, mean, sigma) ==
  LET zs == FDiv(x - mean, sigma)
  IN  FDiv(Exp(-HalfSquare(zs)), FMul(Sqrt2Pi, sigma))

RECURSIVE mixturePDFAt(_, _)
mixturePDFAt(x, mixture) ==
  IF mixture = <<>> THEN 0
  ELSE FMul(Head(mixture).weight, gaussianPDF(x, Head(mixture).mean, Head(mixture).sigma))
       + mixturePDFAt(x, Tail(mixture))

mixturePDFArray(xs, mixture) ==
  Strict([i \in 1..Len(xs) |-> mixturePDFAt(xs[i], mixture)])

makeGrid(domain, n) == linspace(domain[1], domain[2], n)

densityOnGrid(mixture, xs, dx) ==
  normalizeDensity(mixturePDFArray(xs, normalizeWeights(mixture)), dx)

(***************************************************************************)
(* lib/divergences: the divergences of two densities on one grid.          *)
(***************************************************************************)
\* ln(EPS), EPS = 1e-300: ln(1e-300) = -690.78.
LnEPS == -(69078 * (U \div 100))

\* Math.log(Math.max(q, EPS)): a q under the resolution is floored at EPS.
LogFloored(q) == IF q <= 0 THEN LnEPS ELSE Ln(q)

RECURSIVE klSum(_, _)
klSum(p, q) ==
  IF p = <<>> THEN 0
  ELSE LET pi == Max(Head(p), 0)
       IN  (IF pi > 0 THEN FMul(pi, Ln(pi) - LogFloored(Head(q))) ELSE 0)
           + klSum(Tail(p), Tail(q))

kl(p, q, dx) == FMul(klSum(p, q), dx)

RECURSIVE crossSum(_, _)
crossSum(p, q) ==
  IF p = <<>> THEN 0
  ELSE LET pi == Max(Head(p), 0)
       IN  (IF pi > 0 THEN -FMul(pi, LogFloored(Head(q))) ELSE 0)
           + crossSum(Tail(p), Tail(q))

crossEntropy(p, q, dx) == FMul(crossSum(p, q), dx)

Half == U \div 2

\* m[i] = 0.5 * (p[i] + q[i])
Midpoint(p, q) == Strict([i \in 1..Len(p) |-> FMul(Half, p[i] + q[i])])

\* Mutant of jsOver: the two divergences are not halved.
jsOverWhole(p, q, m, dx) == kl(p, m, dx) + kl(q, m, dx)

jsOver(p, q, m, dx) == FMul(Half, kl(p, m, dx)) + FMul(Half, kl(q, m, dx))

jensenShannon(p, q, dx) == jsOver(p, q, Midpoint(p, q), dx)

\* The sum of |p[i] - q[i]|.
RECURSIVE AbsDiffSum(_, _)
AbsDiffSum(p, q) ==
  IF p = <<>> THEN 0 ELSE Abs(Head(p) - Head(q)) + AbsDiffSum(Tail(p), Tail(q))

\* Mutant of totalVariation: the sum is not halved.
totalVariationWhole(p, q, dx) == FMul(AbsDiffSum(p, q), dx)

totalVariation(p, q, dx) == FMul(FMul(Half, AbsDiffSum(p, q)), dx)

\* The Bhattacharyya coefficient, the integral of sqrt(p q).
RECURSIVE SqrtProdSum(_, _)
SqrtProdSum(p, q) ==
  IF p = <<>> THEN 0
  ELSE SqrtOfProduct(Max(0, Head(p)), Max(0, Head(q))) + SqrtProdSum(Tail(p), Tail(q))

bhattCoeff(p, q, dx) == FMul(SqrtProdSum(p, q), dx)

hbOf(bc) == [hellinger |-> Sqrt(Max(0, U - bc)), bhattacharyya |-> -LogFloored(bc)]

hellingerAndBhattacharyya(p, q, dx) == hbOf(bhattCoeff(p, q, dx))

wasserstein1(p, q, dx) == FMul(AbsDiffSum(cumsum(p, dx), cumsum(q, dx)), dx)

\* Mutant of metricsOf: jeffreys taken as twice kl_pq.
metricsOfOneSided(pn, qn, hb, dx) ==
      [kl_pq |-> kl(pn, qn, dx), kl_qp |-> kl(qn, pn, dx),
       js |-> jensenShannon(pn, qn, dx),
       jeffreys |-> 2 * kl(pn, qn, dx),
       cross_pq |-> crossEntropy(pn, qn, dx), cross_qp |-> crossEntropy(qn, pn, dx),
       tv |-> totalVariation(pn, qn, dx),
       hellinger |-> hb.hellinger, bhattacharyya |-> hb.bhattacharyya,
       w1 |-> wasserstein1(pn, qn, dx)]

\* Every metric of the normalized pair.
metricsOf(pn, qn, hb, dx) ==
      [kl_pq |-> kl(pn, qn, dx), kl_qp |-> kl(qn, pn, dx),
       js |-> jensenShannon(pn, qn, dx),
       jeffreys |-> kl(pn, qn, dx) + kl(qn, pn, dx),
       cross_pq |-> crossEntropy(pn, qn, dx), cross_qp |-> crossEntropy(qn, pn, dx),
       tv |-> totalVariation(pn, qn, dx),
       hellinger |-> hb.hellinger, bhattacharyya |-> hb.bhattacharyya,
       w1 |-> wasserstein1(pn, qn, dx)]

metricsOfPair(pn, qn, dx) == metricsOf(pn, qn, hellingerAndBhattacharyya(pn, qn, dx), dx)

\* Mutant of computeAll: the second density is taken as it is given.
computeAllSecondRaw(p, q, dx) == metricsOfPair(normalizeDensity(p, dx), q, dx)

computeAll(p, q, dx) ==
  metricsOfPair(normalizeDensity(p, dx), normalizeDensity(q, dx), dx)

(***************************************************************************)
(* lib/optimize: objective, reparameterization.                            *)
(***************************************************************************)
Objective == {"kl_pq", "kl_qp", "js", "tv", "hellinger", "bhattacharyya", "w1"}

\* computeAll(p, q, dx)[obj]: the one metric the switch selects, computed as
\* computeAll computes it.
selected(pn, qn, dx, obj) ==
      CASE obj = "kl_pq" -> kl(pn, qn, dx)
        [] obj = "kl_qp" -> kl(qn, pn, dx)
        [] obj = "js" -> jensenShannon(pn, qn, dx)
        [] obj = "tv" -> totalVariation(pn, qn, dx)
        [] obj = "hellinger" -> hellingerAndBhattacharyya(pn, qn, dx).hellinger
        [] obj = "bhattacharyya" -> hellingerAndBhattacharyya(pn, qn, dx).bhattacharyya
        [] obj = "w1" -> wasserstein1(pn, qn, dx)

objectiveValue(p, q, dx, obj) ==
  selected(normalizeDensity(p, dx), normalizeDensity(q, dx), dx, obj)

\* The two model kinds; k is read for "gmm" only.
Gauss == [kind |-> "gaussian", k |-> 1]
Gmm(k) == [kind |-> "gmm", k |-> k]

\* The component packParams substitutes for a missing comps[0].
DefaultComp == [mean |-> 0, sigma |-> U, weight |-> U]

\* ln(1e-12) = -27.631: Math.log(weight + 1e-12) of a weight under the
\* resolution; a weight of at least one unit absorbs the 1e-12.
LnTiny == -(27631 * (U \div 1000))

LogWeight(w) == IF w <= 0 THEN LnTiny ELSE Ln(w)

\* Mutant of PadTo: a missing component is given the weight 1.
PadToUnitWeight(cs, k) ==
  Strict([i \in 1..k |-> IF i <= Len(cs) THEN cs[i] ELSE DefaultComp])

\* cs of packParams: the normalized components cut to k and padded to k.
PadTo(cs, k) ==
  Strict([i \in 1..k |-> IF i <= Len(cs) THEN cs[i]
                         ELSE [mean |-> 0, sigma |-> U, weight |-> RDiv(U, k)]])

\* cs.slice(0, k)
FirstK(cs, k) == SubSeq(cs, 1, Min(k, Len(cs)))

\* theta of the k components cs: means, log-scales, logits.
encode(cs, k) ==
  Strict([i \in 1..(3 * k) |->
            IF i <= k THEN cs[i].mean
            ELSE IF i <= 2 * k THEN Ln(cs[i - k].sigma)
            ELSE LogWeight(cs[i - 2 * k].weight)])

\* Mutant of packParams: a k-mixture is encoded with the components it was
\* given, neither cut nor padded to k.
packAsGiven(model, mixture) ==
  IF model.kind = "gaussian"
  THEN LET c == IF Len(mixture) >= 1 THEN mixture[1] ELSE DefaultComp
       IN  <<c.mean, Ln(c.sigma)>>
  ELSE encode(normalizeWeights(mixture), Len(mixture))

\* Mutant of packParams: the scale is stored as it is, not its logarithm.
packRawScale(model, mixture) ==
  IF model.kind = "gaussian"
  THEN LET c == IF Len(mixture) >= 1 THEN mixture[1] ELSE DefaultComp
       IN  <<c.mean, c.sigma>>
  ELSE LET cs == PadTo(FirstK(normalizeWeights(mixture), model.k), model.k)
       IN  Strict([i \in 1..(3 * model.k) |->
                     IF i <= model.k THEN cs[i].mean
                     ELSE IF i <= 2 * model.k THEN cs[i - model.k].sigma
                     ELSE LogWeight(cs[i - 2 * model.k].weight)])

packParams(model, mixture) ==
  IF model.kind = "gaussian"
  THEN LET c == IF Len(mixture) >= 1 THEN mixture[1] ELSE DefaultComp
       IN  <<c.mean, Ln(c.sigma)>>
  ELSE encode(PadTo(FirstK(normalizeWeights(mixture), model.k), model.k), model.k)

RECURSIVE SeqMax(_)
SeqMax(y) == IF Len(y) = 1 THEN y[1] ELSE Max(Head(y), SeqMax(Tail(y)))

\* exps[i] = Math.exp(logits[i] - max)
expsOf(logits, max) == Strict([i \in 1..Len(logits) |-> Exp(logits[i] - max)])

\* exps[i] / sum
overSum(exps, tot) == Strict([i \in 1..Len(exps) |-> FDiv(exps[i], tot)])

sumDivided(exps) == overSum(exps, SeqSum(exps))

softmax(logits) == sumDivided(expsOf(logits, SeqMax(logits)))

\* The floor of a decoded scale: 1e-3.
SigmaFloor == U \div 1000

\* The k components of theta, given the weights of its logits.
decode(th, weights, k) ==
  Strict([i \in 1..k |-> [mean |-> th[i],
                          sigma |-> Max(SigmaFloor, Exp(th[k + i])),
                          weight |-> weights[i]]])

\* Mutant of unpackParams: the scale is decoded without the floor.
unpackUnfloored(model, th) ==
  IF model.kind = "gaussian"
  THEN << [mean |-> th[1], sigma |-> Exp(th[2]), weight |-> U] >>
  ELSE LET w == softmax(SubSeq(th, 2 * model.k + 1, 3 * model.k))
       IN  Strict([i \in 1..model.k |-> [mean |-> th[i],
                                         sigma |-> Exp(th[model.k + i]),
                                         weight |-> w[i]]])

unpackParams(model, th) ==
  IF model.kind = "gaussian"
  THEN << [mean |-> th[1], sigma |-> Max(SigmaFloor, Exp(th[2])), weight |-> U] >>
  ELSE decode(th, softmax(SubSeq(th, 2 * model.k + 1, 3 * model.k)), model.k)

(***************************************************************************)
(* lib/optimize: the finite-difference gradient descent.                   *)
(***************************************************************************)
objectiveForTheta(model, th, target, xs, dx, obj) ==
  objectiveValue(densityOnGrid(unpackParams(model, th), xs, dx), target, dx, obj)

\* The closure (th) => objectiveForTheta(model, th, targetY, grid, dx,
\* objective) of the fit: the values it captures, and its application.
objectiveClosure(model, target, xs, dx, obj) ==
  [model |-> model, targetY |-> target, grid |-> xs, dx |-> dx, obj |-> obj]

applyClosure(f, th) ==
  objectiveForTheta(f.model, th, f.targetY, f.grid, f.dx, f.obj)

\* g[i] = (f(theta + e_i eps_i) - f(theta - e_i eps_i)) / (2 eps_i), every
\* component from copies of the one theta.
finiteDiffGrad(th, eps, f) ==
  Strict([i \in 1..Len(th) |->
     LET e  == eps[i]
         tp == [th EXCEPT ![i] = @ + e]
         tm == [th EXCEPT ![i] = @ - e]
     IN  FDiv(applyClosure(f, tp) - applyClosure(f, tm), 2 * e)])

\* 1e-3 * w for the means, 5e-3 for the log-scales and the logits.
makeEps(model, domain) ==
  LET w  == domain[2] - domain[1]
      em == RDiv(w, 1000)
      el == (5 * U) \div 1000
  IN  IF model.kind = "gaussian" THEN <<em, el>>
      ELSE Strict([i \in 1..(3 * model.k) |-> IF i <= model.k THEN em ELSE el])

\* Mutant of clampMeansInPlace: only the first mean is clamped.
clampFirstMean(model, th, domain) ==
  [th EXCEPT ![1] = Max(domain[1], Min(domain[2], @))]

clampMeansInPlace(model, th, domain) ==
  IF model.kind = "gaussian"
  THEN [th EXCEPT ![1] = Max(domain[1], Min(domain[2], @))]
  ELSE Strict([i \in 1..Len(th) |->
                 IF i <= model.k THEN Max(domain[1], Min(domain[2], th[i]))
                 ELSE th[i]])

\* Mutant of descend: the step goes up the gradient.
ascend(th, lr, grad) ==
  Strict([i \in 1..Len(th) |-> th[i] + FMul(lr, grad[i])])

\* theta[i] -= lr * grad[i], for every i.
descend(th, lr, grad) ==
  Strict([i \in 1..Len(th) |-> th[i] - FMul(lr, grad[i])])

(***************************************************************************)
(* The calls explored.                                                     *)
(***************************************************************************)
\* Largest stepCount of a call, component count of the k-mixture kind, points
\* of the grid.
MaxSteps == 3
KMix == 2
GridN == 7

\* domain [-3, 3], its grid and the grid's spacing, as the page derives them.
Domain == <<-3 * U, 3 * U>>
Grid == makeGrid(Domain, GridN)
Dx == RDiv(Domain[2] - Domain[1], GridN - 1)

Comp(m, s, w) == [mean |-> m, sigma |-> s, weight |-> w]

\* The page's start mixture and target, and starts with no component, with
\* means outside the domain, and with more components than any model kind.
Unimodal == << Comp(0, 8000, 10000) >>
PageTarget == << Comp(-15000, 5500, 8730), Comp(12000, 7500, 1660) >>
Outside == << Comp(40000, 6000, 3000), Comp(-36000, 15000, 1000) >>
Trimodal == << Comp(-22000, 6000, 3300), Comp(2000, 8000, 3400), Comp(25000, 7000, 3300) >>

\* The target density array, as the page computes qY.
TargetArray == densityOnGrid(PageTarget, Grid, Dx)

Initials == {<<>>, Unimodal, Outside, Trimodal}
Models == {Gauss, Gmm(KMix)}
Objectives == {"kl_qp", "tv"}
Rates == {2000}

\* targetY, grid and dx of a call: the page's, from its target and domain.
PageSetting == [targetY |-> TargetArray, grid |-> Grid, dx |-> Dx]
Settings == {PageSetting}

NoOpts == [model |-> Gauss, initial |-> <<>>, targetY |-> <<>>, grid |-> <<>>,
           dx |-> 0, objective |-> "tv", steps |-> 0, lr |-> 0,
           onUpdate |-> FALSE, abortSignal |-> FALSE]

(***************************************************************************)
(* State                                                                   *)
(***************************************************************************)
VARIABLES
  pc,         \* where the call of fitModelToTarget stands
  opts,       \* its FitOptions (onUpdate, abortSignal: whether supplied)
  targetY,    \* the target density array
  theta,      \* the optimization vector
  t,          \* the loop index
  history,    \* the objective values pushed
  comps,      \* const comps of the step in progress
  value,      \* const value of the step in progress
  left,       \* how the loop was left: "break", "cond", or "" while in it
  result,     \* what the call returned
  waiting,    \* the host callback yieldTick waits for: "raf", "timeout", ""
  abortRef,   \* the flag the caller's cancellation predicate returns
  polls,      \* the answers the predicate gave to this call, in order
  updates,    \* the onUpdate invocations of this call, in order
  yields,     \* the yieldTick calls of this call
  resumes,    \* the suspensions of this call the host has resumed
  again,      \* this call follows a cancelled one, the request still standing
  raisedAt,   \* Len(history) when the standing request was raised, else -1
  raisedIn,   \* pc when the standing request was raised, else ""
  rtPc, rtModel, rtMix, rtTheta, rtOut,  \* the round trip through pack/unpack
  initial,    \* the caller's array of initial components, as it now stands
  grid,       \* the caller's grid array, as it now stands
  peer,       \* a second call of fitModelToTarget, running at the same time
  libPc, libArg, libDx, libOut,  \* a call of one of the library's functions
  running,    \* the page's running flag
  pComps,     \* the page's model mixture P
  qComps,     \* the page's target mixture Q
  fitPath,    \* the page's fit path (<<>> for null)
  fits,       \* the fits the page has started
  edits       \* the edits of P and Q made on the page

fitVars == <<pc, opts, targetY, theta, t, history, comps, value, left, result,
             waiting, abortRef, polls, updates, yields, resumes, again,
             raisedAt, raisedIn, initial, grid>>
rtVars == <<rtPc, rtModel, rtMix, rtTheta, rtOut>>
libVars == <<libPc, libArg, libDx, libOut>>
pageVars == <<running, pComps, qComps, fitPath, fits, edits>>
vars == <<fitVars, rtVars, peer, libVars, pageVars>>

FitInit ==
  /\ pc = "idle" /\ opts = NoOpts /\ targetY = <<>> /\ theta = <<>> /\ t = 0
  /\ history = <<>> /\ comps = <<>> /\ value = 0 /\ left = "" /\ result = <<>>
  /\ waiting = "" /\ abortRef = FALSE /\ polls = <<>> /\ updates = <<>>
  /\ yields = 0 /\ resumes = 0 /\ again = FALSE
  /\ raisedAt = -1 /\ raisedIn = ""
  /\ initial = <<>> /\ grid = <<>>

\* No second call, no library call.
PeerIdle == peer = [pc |-> "idle"]
LibIdle == libPc = "off" /\ libArg = <<>> /\ libDx = 0 /\ libOut = <<>>

\* The page is not mounted.
PageIdle ==
  /\ running = FALSE /\ pComps = <<>> /\ qComps = <<>> /\ fitPath = <<>>
  /\ fits = 0 /\ edits = 0

RtIdle ==
  /\ rtPc = "off" /\ rtModel = Gauss /\ rtMix = <<>> /\ rtTheta = <<>> /\ rtOut = <<>>

(***************************************************************************)
(* fitModelToTarget, one action per stretch of its code.                   *)
(***************************************************************************)
\* The call: destructure opts, pack the initial mixture, empty history.
\* What packParams leaves in the array it was given: normalizeWeights maps
\* into new objects, slice copies, and push extends the copy.
arrayPackedInPlace(model, given) ==
  IF model.kind = "gmm"
  THEN PadTo(FirstK(normalizeWeights(given), model.k), model.k)
  ELSE given

arrayAfterPack(model, given) == given

\* What an array read by the step holds afterwards: normalizeDensity,
\* mixturePDFArray, cumsum and the gradient write to arrays they allocate.
arrayAfterStep(y, dx) == y

\* The call with the given options; opts holds the arguments as they were
\* passed, the variables initial, targetY and grid the caller's arrays.
Begin(m, init, st, obj, n, lr, cb, ab) ==
  /\ pc = "idle"
  /\ opts' = [model |-> m, initial |-> init, targetY |-> st.targetY,
              grid |-> st.grid, dx |-> st.dx, objective |-> obj, steps |-> n,
              lr |-> lr, onUpdate |-> cb, abortSignal |-> ab]
  /\ theta' = packParams(m, init)
  /\ initial' = arrayAfterPack(m, init)
  /\ again' = (left = "break" /\ abortRef /\ ab)
  /\ targetY' = st.targetY /\ grid' = st.grid
  /\ pc' = "loop" /\ t' = 0 /\ history' = <<>> /\ comps' = <<>> /\ value' = 0
  /\ left' = "" /\ result' = <<>> /\ waiting' = "" /\ polls' = <<>>
  /\ updates' = <<>> /\ yields' = 0 /\ resumes' = 0
  /\ raisedAt' = (IF abortRef THEN 0 ELSE -1)
  /\ raisedIn' = (IF abortRef THEN "idle" ELSE "")
  /\ UNCHANGED <<abortRef, rtVars, peer, libVars, pageVars>>

Call ==
  \E m \in Models, init \in Initials, st \in Settings, obj \in Objectives,
     n \in 0..MaxSteps, lr \in Rates, cb \in BOOLEAN, ab \in BOOLEAN :
       Begin(m, init, st, obj, n, lr, cb, ab)

\* Mutant of LoopCond: one iteration too many.
LoopCondInclusive(i, steps) == i <= steps

\* The for statement's condition.
LoopCond(i, steps) == i < steps

\* Mutant of AbortHeld: the predicate's answer is dropped.
AbortIgnored(supplied, answer) == FALSE

\* abortSignal && abortSignal(), given the predicate's answer.
AbortHeld(supplied, answer) == supplied /\ answer

\* The loop head: the condition, then the poll of the cancellation predicate.
LoopHead ==
  /\ pc = "loop"
  /\ IF ~LoopCond(t, opts.steps)
     THEN pc' = "return" /\ left' = "cond" /\ UNCHANGED polls
     ELSE /\ polls' = IF opts.abortSignal THEN Append(polls, abortRef) ELSE polls
          /\ IF AbortHeld(opts.abortSignal, abortRef)
             THEN pc' = "return" /\ left' = "break"
             ELSE pc' = "grad" /\ UNCHANGED left
  /\ UNCHANGED <<opts, targetY, theta, t, history, comps, value, result, waiting,
                 abortRef, updates, yields, resumes, again, raisedAt, raisedIn,
                 rtVars, initial, grid, peer, libVars, pageVars>>

\* Mutant of stepTheta: each coordinate is updated as soon as its gradient
\* component is known, so that later components see the earlier updates.
RECURSIVE updatedInTurn(_, _, _, _, _)
updatedInTurn(th, lr, eps, f, i) ==
  IF i > Len(th) THEN th
  ELSE updatedInTurn([th EXCEPT ![i] = @ - FMul(lr, finiteDiffGrad(th, eps, f)[i])],
                     lr, eps, f, i + 1)

stepThetaInTurn(o, th, tY, g) ==
  clampMeansInPlace(o.model,
    updatedInTurn(th, o.lr, makeEps(o.model, Domain),
                  objectiveClosure(o.model, tY, g, o.dx, o.objective), 1),
    Domain)

\* theta after the step's update and clamp.
stepTheta(o, th, tY, g) ==
  clampMeansInPlace(o.model,
    descend(th, o.lr,
      finiteDiffGrad(th, makeEps(o.model, Domain),
        objectiveClosure(o.model, tY, g, o.dx, o.objective))),
    Domain)

\* Mutant of Step: the predicate is polled again after the gradient, and a
\* request held there ends the fit before the push.
StepPolledAgain ==
  /\ pc = "grad"
  /\ IF AbortHeld(opts.abortSignal, abortRef)
     THEN /\ pc' = "return" /\ left' = "break"
          /\ UNCHANGED <<theta, comps, value, history>>
     ELSE /\ theta' = stepTheta(opts, theta, targetY, grid)
          /\ comps' = unpackParams(opts.model, theta')
          /\ value' = objectiveForTheta(opts.model, theta', targetY, grid,
                                        opts.dx, opts.objective)
          /\ history' = Append(history, value')
          /\ pc' = "notify" /\ UNCHANGED left
  /\ UNCHANGED <<opts, targetY, t, result, waiting, abortRef, polls, updates,
                 yields, resumes, again, raisedAt, raisedIn, rtVars, initial, grid, peer, libVars, pageVars>>

\* Mutant of Step: the value pushed is the objective at the vector the step
\* began with.
StepValueBefore ==
  /\ pc = "grad"
  /\ theta' = stepTheta(opts, theta, targetY, grid)
  /\ comps' = unpackParams(opts.model, theta')
  /\ value' = objectiveForTheta(opts.model, theta, targetY, grid, opts.dx,
                                opts.objective)
  /\ history' = Append(history, value')
  /\ pc' = "notify"
  /\ targetY' = arrayAfterStep(targetY, opts.dx)
  /\ grid' = arrayAfterStep(grid, opts.dx)
  /\ UNCHANGED <<opts, t, left, result, waiting, abortRef, polls, updates,
                 yields, resumes, again, raisedAt, raisedIn, rtVars, initial,
                 peer, libVars, pageVars>>

\* Gradient, update, clamp, decode, evaluate, push.
Step ==
  /\ pc = "grad"
  /\ theta' = stepTheta(opts, theta, targetY, grid)
  /\ comps' = unpackParams(opts.model, theta')
  /\ value' = objectiveForTheta(opts.model, theta', targetY, grid, opts.dx,
                                opts.objective)
  /\ history' = Append(history, value')
  /\ pc' = "notify"
  /\ targetY' = arrayAfterStep(targetY, opts.dx)
  /\ grid' = arrayAfterStep(grid, opts.dx)
  /\ UNCHANGED <<opts, t, left, result, waiting, abortRef, polls, updates,
                 yields, resumes, again, raisedAt, raisedIn, rtVars, initial,
                 peer, libVars, pageVars>>

\* Mutant of updateArgs: the step index counted from 1.
updateArgsFromOne(c, i, v) == [comps |-> c, step |-> i + 1, value |-> v]

\* The arguments of onUpdate(comps, t, value).
updateArgs(c, i, v) == [comps |-> c, step |-> i, value |-> v]

\* The host callback yieldTick waits for.
yieldTick(hasRAF) == IF hasRAF THEN "raf" ELSE "timeout"

\* Mutant of Notify: yieldTick() is called and not awaited.
NotifyNotAwaited ==
  /\ pc = "notify"
  /\ updates' = IF opts.onUpdate THEN Append(updates, updateArgs(comps, t, value))
                ELSE updates
  /\ yields' = yields + 1
  /\ pc' = "loop" /\ t' = t + 1
  /\ UNCHANGED <<opts, targetY, theta, history, comps, value, left, result,
                 waiting, abortRef, polls, resumes, again, raisedAt, raisedIn,
                 rtVars, initial, grid, peer, libVars, pageVars>>

\* onUpdate if supplied, then await yieldTick().
Notify ==
  /\ pc = "notify"
  /\ updates' = IF opts.onUpdate THEN Append(updates, updateArgs(comps, t, value))
                ELSE updates
  /\ \E hasRAF \in BOOLEAN : waiting' = yieldTick(hasRAF)
  /\ yields' = yields + 1
  /\ pc' = "suspended"
  /\ UNCHANGED <<opts, targetY, theta, t, history, comps, value, left, result,
                 abortRef, polls, resumes, again, raisedAt, raisedIn, rtVars, initial, grid, peer, libVars, pageVars>>

\* Mutant of Resumed: the host's callback runs and resolves nothing.
ResolveLost == pc = "suspended" /\ UNCHANGED vars

\* Mutant of Resumed: a resumption through the timer comes a turn late and
\* finds the counter advanced twice.
ResumedLate ==
  /\ pc = "suspended"
  /\ pc' = "loop" /\ waiting' = "" /\ resumes' = resumes + 1
  /\ t' = IF waiting = "timeout" THEN t + 2 ELSE t + 1
  /\ UNCHANGED <<opts, targetY, theta, history, comps, value, left, result,
                 abortRef, polls, updates, yields, again, raisedAt, raisedIn,
                 rtVars, initial, grid, peer, libVars, pageVars>>

\* The host resolves the promise; the loop goes on with t++.
Resumed ==
  /\ pc = "suspended"
  /\ pc' = "loop" /\ t' = t + 1 /\ waiting' = "" /\ resumes' = resumes + 1
  /\ UNCHANGED <<opts, targetY, theta, history, comps, value, left, result,
                 abortRef, polls, updates, yields, again, raisedAt, raisedIn,
                 rtVars, initial, grid, peer, libVars, pageVars>>

\* The host runs the requestAnimationFrame callback.
AnimationFrame == waiting = "raf" /\ Resumed

\* The host runs the setTimeout callback.
Timeout == waiting = "timeout" /\ Resumed

\* return { comps: unpackParams(model, theta), history }
Return ==
  /\ pc = "return"
  /\ result' = [comps |-> unpackParams(opts.model, theta), history |-> history]
  /\ pc' = "done"
  /\ UNCHANGED <<opts, targetY, theta, t, history, comps, value, left, waiting,
                 abortRef, polls, updates, yields, resumes, again, raisedAt,
                 raisedIn, rtVars, initial, grid, peer, libVars, pageVars>>

\* The caller has the result; the call's frame is gone.
Settle ==
  /\ pc = "done"
  /\ pc' = "idle" /\ opts' = NoOpts /\ targetY' = <<>> /\ theta' = <<>> /\ t' = 0
  /\ history' = <<>> /\ comps' = <<>> /\ value' = 0 /\ result' = <<>>
  /\ polls' = <<>> /\ updates' = <<>> /\ yields' = 0 /\ resumes' = 0
  /\ again' = FALSE
  /\ raisedAt' = (IF abortRef THEN 0 ELSE -1)
  /\ raisedIn' = (IF abortRef THEN "idle" ELSE "")
  /\ initial' = <<>> /\ grid' = <<>>
  /\ UNCHANGED <<left, waiting, abortRef, rtVars, peer, libVars, pageVars>>

(***************************************************************************)
(* The caller's cancellation predicate: () => abortRef.current.            *)
(***************************************************************************)
\* onStop: the request is raised.
Stop ==
  /\ ~abortRef /\ abortRef' = TRUE
  /\ raisedAt' = Len(history) /\ raisedIn' = pc
  /\ UNCHANGED <<pc, opts, targetY, theta, t, history, comps, value, left, result,
                 waiting, polls, updates, yields, resumes, again, rtVars, initial, grid, peer, libVars, pageVars>>

\* The request is withdrawn.
Withdraw ==
  /\ abortRef /\ abortRef' = FALSE
  /\ raisedAt' = -1 /\ raisedIn' = ""
  /\ UNCHANGED <<pc, opts, targetY, theta, t, history, comps, value, left, result,
                 waiting, polls, updates, yields, resumes, again, rtVars, initial, grid, peer, libVars, pageVars>>

Init == FitInit /\ RtIdle /\ PeerIdle /\ LibIdle /\ PageIdle

Next ==
  \/ Call
  \/ LoopHead
  \/ Step
  \/ Notify
  \/ AnimationFrame
  \/ Timeout
  \/ Return
  \/ Settle
  \/ Stop
  \/ Withdraw

Spec == Init /\ [][Next]_vars

\* Step and Return seen by the program counter alone. They are the only steps
\* of Next that take pc from "grad" to "notify" and from "return" to "done",
\* and each is possible whenever pc is there, so weak fairness of these moves
\* is weak fairness of Step and Return without working out a gradient or a
\* decoding to tell that the step is possible.
StepTaken == pc = "grad" /\ pc' = "notify"
ReturnTaken == pc = "return" /\ pc' = "done"

\* The same behaviours with the event loop's guarantees: synchronous code
\* runs on (the loop head, the step, the callback, the return), and a
\* requested animation frame or timer eventually fires.
LiveSpec ==
  /\ Spec
  /\ WF_vars(LoopHead) /\ WF_pc(StepTaken) /\ WF_vars(Notify)
  /\ WF_vars(AnimationFrame) /\ WF_vars(Timeout) /\ WF_pc(ReturnTaken)

(***************************************************************************)
(* The round trip unpackParams(packParams(mixture)).                       *)
(***************************************************************************)
\* Components of the mixtures tried: a scale under the decoding floor, a
\* weight of 0, weights that do not sum to 1.
RtMeans == {-15000, 12000}
RtSigmas == {SigmaFloor \div 2, 5500, 25000}
RtWeights == {0, 1660, 8730}
RtComps == {Comp(m, sg, w) : m \in RtMeans, sg \in RtSigmas, w \in RtWeights}

\* The component count of a model kind.
CountOf(model) == IF model.kind = "gaussian" THEN 1 ELSE model.k

RtInit ==
  /\ FitInit /\ PeerIdle /\ LibIdle /\ PageIdle
  /\ rtPc = "start" /\ rtModel \in Models
  /\ rtMix \in [1..CountOf(rtModel) -> RtComps]
  /\ rtTheta = <<>> /\ rtOut = <<>>

RtPack ==
  /\ rtPc = "start"
  /\ rtTheta' = packParams(rtModel, rtMix)
  /\ rtPc' = "packed"
  /\ UNCHANGED <<rtModel, rtMix, rtOut, fitVars, peer, libVars, pageVars>>

RtUnpack ==
  /\ rtPc = "packed"
  /\ rtOut' = unpackParams(rtModel, rtTheta)
  /\ rtPc' = "unpacked"
  /\ UNCHANGED <<rtModel, rtMix, rtTheta, fitVars, peer, libVars, pageVars>>

RoundTripNext ==
  \/ RtPack
  \/ RtUnpack

RoundTripSpec == RtInit /\ [][RoundTripNext]_vars

(***************************************************************************)
(* Properties of fitModelToTarget.                                         *)
(***************************************************************************)
\* The polls of the current call that were answered true.
TruePolls == {j \in 1..Len(polls) : polls[j]}

\* Whether the cancel predicate answered every poll of the current call false.
NeverHeld == TruePolls = {}

\* The steps completed so far by the current call.
Completed == IF pc \in {"notify", "suspended"} THEN t + 1 ELSE t

\* The mean coordinates of the parameter vector.
MeanIdx(model) == 1..CountOf(model)

InDomain(x) == Domain[1] <= x /\ x <= Domain[2]

\* C1: when the poll before step k (the poll number k + 1) is answered true
\* the loop is left at once: the history holds exactly k values, no onUpdate
\* carries a step index of k or more, and the fit returns that history. A fit
\* called after a cancelled one while the request still stands returns an empty
\* history and calls onUpdate never.
C1_CancelAtPoll ==
  /\ \A j \in TruePolls :
       /\ j = Len(polls)
       /\ pc \in {"return", "done"}
       /\ Len(history) = j - 1
       /\ \A i \in 1..Len(updates) : updates[i].step < j - 1
       /\ pc = "done" => result.history = history
  /\ (pc = "done" /\ again /\ abortRef /\ raisedIn = "idle")
       => (result.history = <<>> /\ updates = <<>>)

\* C1 witness: a fit of three steps answered true at its third poll, returned
\* with two values and two onUpdate calls.
C1_Witness ==
  /\ pc = "done" /\ opts.steps = 3 /\ opts.onUpdate
  /\ polls = <<FALSE, FALSE, TRUE>>
  /\ Len(result.history) = 2 /\ Len(updates) = 2

\* C2: a request raised after the poll of a step and left standing does not
\* stop that step: the step still appends its value and still calls onUpdate,
\* and at most one value is appended after the request; the fit then returns.
C2_RequestMidStep ==
  (opts.abortSignal /\ abortRef /\ raisedIn \in {"grad", "notify", "suspended"})
    => /\ Len(history) <= raisedAt + 1
       /\ (raisedIn = "grad" /\ pc # "grad") => Len(history) = raisedAt + 1
       /\ (raisedIn # "grad") => Len(history) = raisedAt
       /\ (opts.onUpdate /\ pc \in {"suspended", "loop", "return", "done"})
            => /\ Len(updates) = Len(history)
               /\ updates[Len(updates)].step = Len(history) - 1
       /\ pc = "done" => Len(result.history) = Len(history)

\* C2 witness: the request was raised during the gradient of the second step
\* and the fit has returned with that step's value and callback.
C2_Witness ==
  /\ pc = "done" /\ opts.abortSignal /\ abortRef /\ opts.onUpdate
  /\ raisedIn = "grad" /\ raisedAt = 1 /\ opts.steps = 3
  /\ Len(result.history) = 2 /\ Len(updates) = 2
  /\ left = "break"

\* C3: the history's length is the number of completed steps and never
\* exceeds stepCount; at return it is stepCount when no poll was answered true
\* and less than stepCount when the fit was cancelled.
C3_HistoryLength ==
  pc # "idle"
    => /\ Len(history) = Completed
       /\ Len(history) <= opts.steps
       /\ pc = "done" =>
            /\ NeverHeld => Len(result.history) = opts.steps
            /\ ~NeverHeld => Len(result.history) < opts.steps

\* C3 witness: a fit polled before each of its steps, never answered true,
\* returned with stepCount values.
C3_Witness ==
  /\ pc = "done" /\ opts.abortSignal /\ opts.steps >= 2
  /\ Len(polls) = opts.steps /\ NeverHeld
  /\ Len(result.history) = opts.steps

\* C4: a supplied onUpdate is called exactly once per completed step, with
\* the step indices 0, 1, 2, ... in order and without gaps; the value passed
\* for step i is the history's entry for step i, and the mixture passed is
\* the decoding of the vector as it stands after that step's update and clamp.
C4_OnUpdate ==
  /\ ~opts.onUpdate => updates = <<>>
  /\ (opts.onUpdate /\ pc # "idle")
       => /\ Len(updates) = (IF pc = "notify" THEN Completed - 1 ELSE Completed)
          /\ \A i \in 1..Len(updates) :
               /\ updates[i].step = i - 1
               /\ updates[i].value = history[i]
          /\ pc = "suspended" =>
               updates[Len(updates)].comps = unpackParams(opts.model, theta)

\* C4 witness: the callback of the third step of a two-component fit has just
\* been made.
C4_Witness ==
  /\ pc = "suspended" /\ opts.onUpdate /\ opts.model = Gmm(KMix)
  /\ Len(updates) = 3 /\ updates[3].step = 2
  /\ updates[3].comps # updates[1].comps

\* C5: the fit suspends exactly once per completed step, after that step's
\* append and callback; the next step does not begin before the host has
\* resumed it; at return the suspensions number the history's length.
C5_Suspensions ==
  pc # "idle"
    => /\ pc \in {"loop", "grad", "notify"} => (yields = t /\ resumes = t)
       /\ pc = "suspended" =>
            /\ yields = t + 1 /\ resumes = t
            /\ Len(history) = t + 1
            /\ opts.onUpdate => Len(updates) = t + 1
            /\ waiting \in {"raf", "timeout"}
       /\ pc # "suspended" => waiting = ""
       /\ pc \in {"return", "done"} =>
            (yields = Len(history) /\ resumes = Len(history))

\* C5 witness: a returned fit of three steps with three suspensions, each
\* resumed.
C5_Witness ==
  /\ pc = "done" /\ yields = 3 /\ resumes = 3 /\ Len(result.history) = 3
  /\ ~opts.abortSignal

\* The lifecycle state of the fit.
FitState ==
  CASE pc = "idle" -> "Idle"
    [] pc = "done" /\ left = "break" -> "Cancelled"
    [] pc = "done" /\ left # "break" -> "Completed"
    [] OTHER -> "Running"

\* The lifecycle's steps within one call; Idle follows a terminal state only
\* when the caller has taken the result and the frame is gone.
FitStep(a, b) ==
  \/ a = b
  \/ a = "Idle" /\ b = "Running"
  \/ a = "Running" /\ b \in {"Completed", "Cancelled"}
  \/ a \in {"Completed", "Cancelled"} /\ b = "Idle"

\* C6: a fit goes Idle, Running, then exactly one of Completed or Cancelled.
\* It is Cancelled exactly when a poll was answered true and Completed exactly
\* when all stepCount steps ran; the returned history tells which (shorter
\* than stepCount or not). In a terminal state no step, callback or
\* suspension happens any more.
C6_Lifecycle ==
  /\ [](pc = "done" =>
          /\ left \in {"break", "cond"}
          /\ (FitState = "Cancelled") <=> ~NeverHeld
          /\ (FitState = "Completed") <=> (Len(history) = opts.steps)
          /\ (FitState = "Cancelled") <=> (Len(result.history) < opts.steps))
  /\ [][/\ FitStep(FitState, FitState')
        /\ (pc = "done" /\ pc' = "done") =>
             /\ left' = left /\ result' = result
             /\ history' = history /\ updates' = updates /\ theta' = theta
             /\ yields' = yields /\ polls' = polls]_vars

\* C6 witness: a fit cancelled at its second poll, in its terminal state, the
\* request withdrawn since.
C6_Witness ==
  /\ pc = "done" /\ FitState = "Cancelled" /\ polls = <<FALSE, TRUE>>
  /\ ~abortRef /\ opts.steps = 2 /\ Len(result.history) = 1

\* C7: when the host resumes every suspension, every call returns, after at
\* most stepCount steps.
C7_Terminates ==
  (pc \notin {"idle", "done"})
    ~> (pc = "done" /\ Len(result.history) <= opts.steps /\ yields <= opts.steps)

\* C7 witness: a fit of two components returned after all its steps, none of
\* them cancelled, no callback supplied.
C7_Witness ==
  /\ pc = "done" /\ opts.model = Gmm(KMix) /\ opts.steps = 3
  /\ Len(result.history) = 3 /\ ~opts.onUpdate /\ opts.abortSignal

\* C8: after every completed step every mean coordinate of the vector lies in
\* the domain; so do the means of every mixture passed to onUpdate and of the
\* returned mixture when at least one step completed.
C8_MeansInDomain ==
  /\ (pc # "idle" /\ Len(history) >= 1)
       => \A i \in MeanIdx(opts.model) : InDomain(theta[i])
  /\ \A i \in 1..Len(updates) :
       \A j \in 1..Len(updates[i].comps) : InDomain(updates[i].comps[j].mean)
  /\ (pc = "done" /\ Len(result.history) >= 1)
       => \A j \in 1..Len(result.comps) : InDomain(result.comps[j].mean)

\* C8 witness: a fit started with both means outside the domain has returned
\* with the means on the domain's two ends.
C8_Witness ==
  /\ pc = "done" /\ opts.initial = Outside /\ opts.model = Gmm(KMix)
  /\ Len(result.history) >= 1
  /\ result.comps[1].mean = Domain[2] /\ result.comps[2].mean = Domain[1]

\* C9: throughout a fit the vector has length 2 for a single Gaussian and 3k
\* for a k-mixture, and every mixture passed to onUpdate or returned has 1 or
\* k components, whatever the number of initial components.
C9_Lengths ==
  pc # "idle"
    => /\ Len(theta) = (IF opts.model.kind = "gaussian" THEN 2
                        ELSE 3 * opts.model.k)
       /\ \A i \in 1..Len(updates) :
            Len(updates[i].comps) = CountOf(opts.model)
       /\ pc = "done" => Len(result.comps) = CountOf(opts.model)

\* C9 witness: a two-component fit started from no components at all has
\* returned two components after at least one step.
C9_Witness ==
  /\ pc = "done" /\ opts.model = Gmm(KMix) /\ opts.initial = <<>>
  /\ Len(result.comps) = KMix /\ Len(result.history) >= 1
  /\ opts.onUpdate /\ Len(updates[1].comps) = KMix

(***************************************************************************)
(* Properties of packParams and unpackParams.                              *)
(***************************************************************************)
\* Equality within tolerance: two units of the resolution and a thousandth
\* of the larger value.
Close(a, b) == Abs(a - b) * 1000 <= Max(Abs(a), Abs(b)) + 2000

\* The same means, scales and weights, component by component.
SameMixture(a, b) ==
  /\ Len(a) = Len(b)
  /\ \A i \in 1..Len(a) :
       /\ Close(a[i].mean, b[i].mean)
       /\ Close(a[i].sigma, b[i].sigma)
       /\ Close(a[i].weight, b[i].weight)

\* A mixture with some positive weight and no scale under the decoding floor.
Regular(mix) ==
  /\ \E i \in 1..Len(mix) : mix[i].weight > 0
  /\ \A i \in 1..Len(mix) : mix[i].sigma >= SigmaFloor

\* C10 as stated: for both model kinds and every mixture with the kind's
\* component count, unpackParams(packParams(mixture)) has the means, scales
\* and weights of normalizeWeights(mixture) within tolerance.
C10_RoundTrip ==
  rtPc = "unpacked" => SameMixture(rtOut, normalizeWeights(rtMix))

\* C10 amended: the round trip gives the means, scales and weights of
\* normalizeWeights(mixture) for every mixture with the kind's component
\* count that has a positive weight and no scale under the floor of 1e-3.
C10_RoundTripRegular ==
  (rtPc = "unpacked" /\ Regular(rtMix))
    => SameMixture(rtOut, normalizeWeights(rtMix))

\* C10 witness: a two-component mixture with weights that do not sum to 1
\* has gone through the round trip and come back with the normalized weights.
C10_Witness ==
  /\ rtPc = "unpacked" /\ rtModel = Gmm(KMix) /\ Regular(rtMix)
  /\ rtMix[1].weight = 1660 /\ rtMix[2].weight = 8730
  /\ rtMix[1].sigma = 5500 /\ rtMix[2].sigma = 25000
  /\ rtOut[1].weight # rtMix[1].weight
  /\ SameMixture(rtOut, normalizeWeights(rtMix))

(***************************************************************************)
(* packParams of mixtures with fewer, as many and more components than k.  *)
(***************************************************************************)
PkSigmas == {5500, 25000}
PkComps == {Comp(m, sg, w) : m \in RtMeans, sg \in PkSigmas, w \in RtWeights}

\* The mixtures of 0 .. k + 1 components.
PkMixtures == UNION {[1..n -> PkComps] : n \in 0..(KMix + 1)}

PkInit ==
  /\ FitInit /\ PeerIdle /\ LibIdle /\ PageIdle
  /\ rtPc = "start" /\ rtModel = Gmm(KMix)
  /\ rtMix \in PkMixtures
  /\ rtTheta = <<>> /\ rtOut = <<>>

PackSpec == PkInit /\ [][RoundTripNext]_vars

\* The slots of the vector that encode supplied components and the slots that
\* encode synthesized ones, as C11 states them.
SuppliedSlots(th, mix, k) ==
  \A i \in 1..Min(Len(mix), k) :
    /\ th[i] = mix[i].mean
    /\ th[k + i] = Ln(mix[i].sigma)
    /\ th[2 * k + i] = LogWeight(normalizeWeights(mix)[i].weight)

MissingSlots(th, mix, k) ==
  \A i \in (Len(mix) + 1)..k :
    /\ th[i] = 0
    /\ th[k + i] = 0
    /\ th[2 * k + i] = Ln(RDiv(U, k))

DcLogScales == {-(50 * U), ExpLo - 1, ExpLo, -92103, -69078, -69000, 0, U}
DcLogits == {0, -6931}

\* The vectors of a model: [mean, log-scale], or k means, k log-scales and k
\* logits.
DcVectors(model) ==
  IF model.kind = "gaussian"
  THEN {<<m, ls>> : m \in RtMeans, ls \in DcLogScales}
  ELSE {ms \o ls \o lg : ms \in [1..model.k -> RtMeans],
                         ls \in [1..model.k -> DcLogScales],
                         lg \in [1..model.k -> DcLogits]}

DcInit ==
  /\ FitInit /\ PeerIdle /\ LibIdle /\ PageIdle
  /\ rtPc = "packed" /\ rtModel \in Models
  /\ rtMix = <<>> /\ rtOut = <<>>
  /\ rtTheta \in DcVectors(rtModel)

DecodeNext ==
  \/ RtUnpack

DecodeSpec == DcInit /\ [][DecodeNext]_vars

\* The scales of a mixture are all at least the floor of 1e-3.
ScalesFloored(mix) == \A i \in 1..Len(mix) : mix[i].sigma >= SigmaFloor

\* C12: every component of every mixture produced by unpackParams, be it
\* decoded from an arbitrary vector, passed to onUpdate or returned by a fit,
\* has a scale of at least 1e-3, however negative the log-scale coordinates.
C12_ScaleFloor ==
  /\ rtPc = "unpacked" => ScalesFloored(rtOut)
  /\ \A i \in 1..Len(updates) : ScalesFloored(updates[i].comps)
  /\ pc = "done" => ScalesFloored(result.comps)

\* C12 witness: a vector whose log-scales are below ln(1e-3), one of them
\* below the range where Math.exp gives a positive number, has been decoded
\* to scales of exactly 1e-3.
C12_Witness ==
  /\ rtPc = "unpacked" /\ rtModel = Gmm(KMix)
  /\ rtTheta[KMix + 1] = -(50 * U) /\ rtTheta[KMix + 2] = -92103
  /\ rtOut[1].sigma = SigmaFloor /\ rtOut[2].sigma = SigmaFloor

(***************************************************************************)
(* fitModelToTarget called with a configuration the contract excludes.     *)
(***************************************************************************)
\* dx of 0 and below 0, an empty grid with an empty target, a target longer
\* than the grid.
InvalidSettings ==
  { [targetY |-> TargetArray, grid |-> Grid, dx |-> 0],
    [targetY |-> TargetArray, grid |-> Grid, dx |-> -Dx],
    [targetY |-> <<>>, grid |-> <<>>, dx |-> Dx],
    [targetY |-> TargetArray \o <<0>>, grid |-> Grid, dx |-> Dx] }

\* The configurations the contract excludes.
InvalidConfiguration(o) ==
  \/ o.dx <= 0
  \/ o.grid = <<>>
  \/ Len(o.targetY) # Len(o.grid)
  \/ o.model.kind = "gmm" /\ o.model.k < 1

\* The call with an excluded setting, or with a mixture kind of no component.
InvalidCalls ==
  {c \in (Models \cup {Gmm(0)}) \X (InvalidSettings \cup {PageSetting}) :
     c[1] = Gmm(0) \/ c[2] \in InvalidSettings}

InvalidCall ==
  \E c \in InvalidCalls, init \in {Unimodal, Trimodal}, obj \in Objectives,
     n \in 0..MaxSteps, lr \in Rates, cb \in BOOLEAN, ab \in BOOLEAN :
       Begin(c[1], init, c[2], obj, n, lr, cb, ab)

InvalidNext ==
  \/ InvalidCall
  \/ LoopHead
  \/ Step
  \/ Notify
  \/ AnimationFrame
  \/ Timeout
  \/ Return
  \/ Settle
  \/ Stop
  \/ Withdraw

InvalidSpec == Init /\ [][InvalidNext]_vars

\* C13: a fit called with a non-positive dx, an empty grid, target and grid of
\* different lengths, or a k-mixture with k < 1 runs no step: it appends no
\* history entry, calls onUpdate never and never suspends.
C13_FailsFast ==
  (pc # "idle" /\ InvalidConfiguration(opts))
    => /\ history = <<>> /\ updates = <<>> /\ yields = 0
       /\ pc \notin {"grad", "notify", "suspended"}


passOf(o, th) ==
  [theta |-> th,
   comps |-> unpackParams(o.model, th),
   value |-> objectiveForTheta(o.model, th, o.targetY, o.grid, o.dx, o.objective)]

\* The passes of n more iterations after the pass p.
RECURSIVE passesFrom(_, _, _)
passesFrom(o, p, n) ==
  IF n = 0 THEN <<p>>
  ELSE <<p>> \o passesFrom(o, passOf(o, stepTheta(o, p.theta, o.targetY, o.grid)), n - 1)

\* Entry j + 1 is the state of the loop after j iterations.
loopAlone(o) == passesFrom(o, passOf(o, packParams(o.model, o.initial)), MaxSteps)

\* The inputs of a fit that its result may depend on.
inputsOf(o) ==
  [model |-> o.model, initial |-> o.initial, targetY |-> o.targetY,
   grid |-> o.grid, dx |-> o.dx, objective |-> o.objective, lr |-> o.lr]

FitInputs ==
  {[model |-> m, initial |-> init, targetY |-> st.targetY, grid |-> st.grid,
    dx |-> st.dx, objective |-> obj, lr |-> lr] :
     m \in Models, init \in Initials, st \in Settings, obj \in Objectives,
     lr \in Rates}

\* The plain loop's passes for every input, computed once.
AloneRuns == [o \in FitInputs |-> loopAlone(o)] @@ <<>>

\* The number of iterations the answers p of the predicate allow.
stepsAllowed(o, p) ==
  IF o.abortSignal /\ p # <<>> /\ p[Len(p)] THEN Len(p) - 1 ELSE o.steps

PeerOpts(m, init, obj, n, lr, ab) ==
  [model |-> m, initial |-> init, targetY |-> targetY, grid |-> grid,
   dx |-> opts.dx, objective |-> obj, steps |-> n, lr |-> lr,
   onUpdate |-> FALSE, abortSignal |-> ab]

\* The second call, made while the first is under way.
PeerBegin(m, init, obj, n, lr, ab) ==
  /\ pc # "idle" /\ peer.pc = "idle"
  /\ peer' = [pc |-> "loop", opts |-> PeerOpts(m, init, obj, n, lr, ab),
              theta |-> packParams(m, init), t |-> 0, history |-> <<>>,
              polls |-> <<>>, seen |-> <<>>, result |-> <<>>]
  /\ UNCHANGED <<fitVars, rtVars, libVars, pageVars>>

PeerCall ==
  \E ab \in BOOLEAN : PeerBegin(Gauss, Unimodal, "tv", 2, 2000, ab)

PeerLoopHead ==
  /\ peer.pc = "loop"
  /\ peer' =
       IF ~LoopCond(peer.t, peer.opts.steps) THEN [peer EXCEPT !.pc = "return"]
       ELSE [peer EXCEPT
               !.polls = IF peer.opts.abortSignal THEN Append(@, abortRef) ELSE @,
               !.pc = IF AbortHeld(peer.opts.abortSignal, abortRef)
                      THEN "return" ELSE "grad"]
  /\ UNCHANGED <<fitVars, rtVars, libVars, pageVars>>

\* Mutant of thetaAfterPeer: both calls step one vector.
thetaSharedWithPeer(own, other) == other

\* The first call's vector after the second call's step: theta is a local of
\* each call.
thetaAfterPeer(own, other) == own

\* Gradient, update, clamp, evaluate, push, in the second call; seen records
\* how far the first call was.
PeerStep ==
  /\ peer.pc = "grad"
  /\ LET th == stepTheta(peer.opts, peer.theta, targetY, grid)
     IN  /\ peer' = [peer EXCEPT
                       !.theta = th,
                       !.history = Append(@, objectiveForTheta(peer.opts.model, th,
                                      targetY, grid, peer.opts.dx, peer.opts.objective)),
                       !.seen = Append(@, Len(history)),
                       !.pc = "suspended"]
         /\ theta' = thetaAfterPeer(theta, th)
  /\ targetY' = arrayAfterStep(targetY, peer.opts.dx)
  /\ grid' = arrayAfterStep(grid, peer.opts.dx)
  /\ UNCHANGED <<pc, opts, t, history, comps, value, left, result, waiting,
                 abortRef, polls, updates, yields, resumes, again, raisedAt,
                 raisedIn, initial, rtVars, libVars, pageVars>>

PeerResumed ==
  /\ peer.pc = "suspended"
  /\ peer' = [peer EXCEPT !.pc = "loop", !.t = @ + 1]
  /\ UNCHANGED <<fitVars, rtVars, libVars, pageVars>>

PeerReturn ==
  /\ peer.pc = "return"
  /\ peer' = [peer EXCEPT
                !.pc = "done",
                !.result = [comps |-> unpackParams(peer.opts.model, peer.theta),
                            history |-> peer.history]]
  /\ UNCHANGED <<fitVars, rtVars, libVars, pageVars>>

\* The first call of the pair.
PairCall ==
  \E ab \in BOOLEAN :
    Begin(Gmm(KMix), Trimodal, PageSetting, "kl_qp", MaxSteps, 2000, TRUE, ab)

PairNext ==
  \/ PairCall
  \/ LoopHead
  \/ Step
  \/ Notify
  \/ AnimationFrame
  \/ Timeout
  \/ Return
  \/ Stop
  \/ PeerCall
  \/ PeerLoopHead
  \/ PeerStep
  \/ PeerResumed
  \/ PeerReturn

PairSpec == Init /\ [][PairNext]_vars

LibWeights == {-3000, 0, 2500, U, 3 * U}
LibComps ==
  {[mean |-> m, sigma |-> 5500, weight |-> w] : m \in RtMeans, w \in LibWeights}
LibMixtures == UNION {[1..n -> LibComps] : n \in 0..(KMix + 1)}

\* Arrays on the grid: any sign for normalizeDensity, non-negative for cumsum
\* and computeAll.
LibSigned == [1..GridN -> {-2000, 0, 3000}]
LibDensities == [1..GridN -> {0, 1500, 4000}]
LibDxs == {Dx, U \div 4}

\* Densities compared with one another: flat blocks of cells, which overlap,
\* nest or lie apart, and the densities of the page's mixtures.
Block(a, b, h) == Strict([i \in 1..GridN |-> IF i >= a /\ i <= b THEN h ELSE 0])
PairDensities ==
  {Block(c[1], c[2], h) :
     c \in {d \in (1..GridN) \X (1..GridN) : d[1] <= d[2]}, h \in {1500, 4000}}
    \cup {mixturePDFArray(Grid, normalizeWeights(m)) :
            m \in {Unimodal, PageTarget, Trimodal}}

\* Largest number of samples of a histogram.
MaxSamples == 3

\* Mutant of binIndex: the quotient is rounded to the nearest integer.
binIndexRounded(x, minX, width) == RDiv(FDiv(x - minX, width), U)

\* k = Math.floor((x - minX) / width)
binIndex(x, minX, width) == FDiv(x - minX, width) \div U

\* counts[k] after the loop over the samples.
binCount(samples, k, bins, minX, width) ==
  Cardinality({i \in 1..Len(samples) :
                 /\ binIndex(samples[i], minX, width) = k
                 /\ k >= 0 /\ k < bins})

\* histogramDensity(samples, bins, domain), for samples.length > 0; bin k of
\* the code is entry k + 1.
histogramDensity(samples, bins, domain) ==
  LET minX == domain[1]
      maxX == domain[2]
      width == RDiv(maxX - minX, bins)
      factor == FDiv(U, Len(samples) * width)
  IN  [xs |-> Strict([i \in 1..bins |-> minX + RDiv((2 * i - 1) * width, 2)]),
       ys |-> Strict([i \in 1..bins |->
                        binCount(samples, i - 1, bins, minX, width) * factor])]

\* Samples below, at and above either end of the domain, and inside it.
SampleValues ==
  {Domain[1] - U, Domain[1] - 1, Domain[1], -4000, 13000,
   Domain[2] - 1, Domain[2], Domain[2] + U}
SampleArrays == UNION {[1..n -> SampleValues] : n \in 1..MaxSamples}
\* Bin counts whose width is and is not a whole number of units.
HistBins == {GridN - 1, GridN}

LibCalls ==
  {[fn |-> "normalizeWeights", arg |-> a, dx |-> 0] : a \in LibMixtures}
    \cup {[fn |-> "histogramDensity", arg |-> [samples |-> a, bins |-> b], dx |-> 0] :
            a \in SampleArrays, b \in HistBins}
    \cup {[fn |-> "normalizeDensity", arg |-> a, dx |-> d] :
            a \in LibSigned \cup LibDensities, d \in LibDxs}
    \cup {[fn |-> f, arg |-> a, dx |-> d] :
            f \in {"cumsum", "computeAll"}, a \in LibDensities, d \in LibDxs}
    \cup {[fn |-> "computeAllBothWays", arg |-> <<p, q>>, dx |-> d] :
            p \in PairDensities, q \in PairDensities, d \in LibDxs}

LibInit ==
  /\ FitInit /\ RtIdle /\ PeerIdle /\ PageIdle
  /\ \E c \in LibCalls : libPc = c.fn /\ libArg = c.arg /\ libDx = c.dx
  /\ libOut = <<>>

\* What a library function leaves in the array it was given: map, new
\* Float64Array and the object spread build the result apart from it.
argAfter(a) == a

\* The call named fn returns v.
LibReturn(fn, v) ==
  /\ libPc = fn
  /\ libOut' = [fn |-> fn, given |-> libArg, value |-> v]
  /\ libArg' = argAfter(libArg)
  /\ libPc' = "returned"
  /\ UNCHANGED <<fitVars, rtVars, peer, libDx, pageVars>>

NormalizeWeights == LibReturn("normalizeWeights", normalizeWeights(libArg))

NormalizeDensity == LibReturn("normalizeDensity", normalizeDensity(libArg, libDx))

Cumsum == LibReturn("cumsum", cumsum(libArg, libDx))

ComputeAll == LibReturn("computeAll", computeAll(libArg, libArg, libDx))

\* computeAll(p, q, dx) and computeAll(q, p, dx) of one pair.
ComputeAllBothWays ==
  LibReturn("computeAllBothWays",
            [pq |-> computeAll(libArg[1], libArg[2], libDx),
             qp |-> computeAll(libArg[2], libArg[1], libDx)])

HistogramDensity ==
  LibReturn("histogramDensity",
            histogramDensity(libArg.samples, libArg.bins, Domain))

LibNext ==
  \/ HistogramDensity
  \/ NormalizeWeights
  \/ NormalizeDensity
  \/ Cumsum
  \/ ComputeAll
  \/ ComputeAllBothWays

LibSpec == LibInit /\ [][LibNext]_vars


\* The function named fn has returned.
Returned(fn) == libPc = "returned" /\ libOut.fn = fn

\* C17: normalizeWeights returns as many components in the same order, means
\* and scales unchanged, every weight in [0, 1]; the weights sum to 1 (to the
\* rounding of one division per component) when some input weight is positive
\* and are all 0 otherwise; the input components are left as they were.
C17_NormalizeWeights ==
  Returned("normalizeWeights") =>
    LET given == libOut.given
        out == libOut.value
        n == Len(given)
    IN  /\ Len(out) = n
        /\ \A i \in 1..n :
             /\ out[i].mean = given[i].mean /\ out[i].sigma = given[i].sigma
             /\ out[i].weight >= 0 /\ out[i].weight <= U
        /\ IF \E i \in 1..n : given[i].weight > 0
           THEN Abs(SeqSum([i \in 1..n |-> out[i].weight]) - U) <= n
           ELSE \A i \in 1..n : out[i].weight = 0
        /\ libArg = given

\* Three components, the first of negative weight, the second of weight
\* above 1, the third of weight 0.
C17_Witness ==
  /\ Returned("normalizeWeights")
  /\ Len(libOut.given) = 3
  /\ libOut.given[1].weight < 0 /\ libOut.given[2].weight > U
  /\ libOut.given[3].weight = 0
  /\ libOut.given[1].mean # libOut.given[2].mean
  /\ libOut.value[1].weight = 0 /\ libOut.value[2].weight = U


\* C18: normalizeDensity returns an array of the input's length, of grid sum
\* 1 (to one rounding per element) when the input's grid sum is above 0, and
\* equal to the input element for element when it is not; the input array is
\* left as it was.
C18_NormalizeDensity ==
  Returned("normalizeDensity") =>
    LET y == libOut.given
        out == libOut.value
    IN  /\ Len(out) = Len(y)
        /\ IF sum(y, libDx) > 0
           THEN Abs(sum(out, libDx) - U) <= Len(y)
           ELSE out = y
        /\ libArg = y

\* An array with elements below 0 and a grid sum above 0 that is not 1.
C18_Witness ==
  /\ Returned("normalizeDensity")
  /\ \E i \in 1..Len(libOut.given) : libOut.given[i] < 0
  /\ sum(libOut.given, libDx) > U
  /\ libOut.value # libOut.given
  /\ libArg = libOut.given

\* normalizeDensity of an array whose grid sum is below 0, and of a zero
\* array.
C18_WitnessUnscaled ==
  /\ Returned("normalizeDensity")
  /\ sum(libOut.given, libDx) <= 0
  /\ libOut.value = libOut.given


\* C19: for a non-negative array of positive mass and dx > 0, cumsum returns
\* a non-decreasing array with every element in [0, 1] and the last element
\* exactly 1; for a zero array it returns zeros.
C19_Cumsum ==
  Returned("cumsum") =>
    LET y == libOut.given
        out == libOut.value
        n == Len(y)
    IN  /\ Len(out) = n
        /\ IF SeqSum(y) > 0
           THEN /\ \A i \in 1..n : out[i] >= 0 /\ out[i] <= U
                /\ \A i \in 1..(n - 1) : out[i] <= out[i + 1]
                /\ out[n] = U
           ELSE \A i \in 1..n : out[i] = 0

\* An array of mass above 1 that starts with a zero and rises at least twice.
C19_Witness ==
  /\ Returned("cumsum")
  /\ sum(libOut.given, libDx) > U
  /\ libOut.given[1] = 0
  /\ libOut.value[1] = 0
  /\ libOut.value[2] > 0 /\ libOut.value[2] < libOut.value[3]
  /\ libOut.value[Len(libOut.value)] = U


\* C20: for a density P of positive mass, computeAll(P, P, dx) gives 0 for
\* kl_pq, kl_qp, js, jeffreys, tv and w1, and for bhattacharyya and hellinger
\* what the rounding of the normalized mass leaves: the Bhattacharyya
\* coefficient is 1 to one rounding per element, so bhattacharyya is 0 to that
\* rounding and hellinger at most its square root.
C20_IdenticalZero ==
  (Returned("computeAll") /\ SeqSum(libOut.given) > 0) =>
    LET v == libOut.value
        n == Len(libOut.given)
    IN  /\ v.kl_pq = 0 /\ v.kl_qp = 0 /\ v.js = 0 /\ v.jeffreys = 0
        /\ v.tv = 0 /\ v.w1 = 0
        /\ Abs(v.bhattacharyya) <= n
        /\ v.hellinger >= 0 /\ v.hellinger <= Sqrt(n)

\* A density of mass other than 1 with empty cells, compared with itself.
C20_Witness ==
  /\ Returned("computeAll")
  /\ sum(libOut.given, libDx) > 2 * U
  /\ \E i \in 1..Len(libOut.given) : libOut.given[i] = 0
  /\ \E i, j \in 1..Len(libOut.given) :
       libOut.given[i] > 0 /\ libOut.given[j] > libOut.given[i]
  /\ libOut.value.kl_pq = 0 /\ libOut.value.w1 = 0


\* C21: in every result of computeAll jeffreys is kl_pq + kl_qp of that
\* result, and computeAll(q, p, dx) is computeAll(p, q, dx) with kl_pq and
\* kl_qp exchanged and cross_pq and cross_qp exchanged, the other metrics the
\* same.
C21_JeffreysAndSwap ==
  /\ Returned("computeAll") =>
       libOut.value.jeffreys = libOut.value.kl_pq + libOut.value.kl_qp
  /\ Returned("computeAllBothWays") =>
       LET a == libOut.value.pq
           b == libOut.value.qp
       IN  /\ a.jeffreys = a.kl_pq + a.kl_qp
           /\ b.jeffreys = b.kl_pq + b.kl_qp
           /\ b.kl_pq = a.kl_qp /\ b.kl_qp = a.kl_pq
           /\ b.cross_pq = a.cross_qp /\ b.cross_qp = a.cross_pq
           /\ b.jeffreys = a.jeffreys /\ b.js = a.js /\ b.tv = a.tv
           /\ b.hellinger = a.hellinger /\ b.bhattacharyya = a.bhattacharyya
           /\ b.w1 = a.w1

\* A pair whose two KL divergences and two cross-entropies differ.
C21_Witness ==
  /\ Returned("computeAllBothWays")
  /\ libOut.value.pq.kl_pq # libOut.value.pq.kl_qp
  /\ libOut.value.pq.cross_pq # libOut.value.pq.cross_qp
  /\ libOut.value.pq.kl_pq > 0 /\ libOut.value.pq.kl_qp > 0
  /\ libOut.value.qp.kl_pq = libOut.value.pq.kl_qp


\* Both arguments of the pair call have positive mass.
PairOfPositiveMass ==
  /\ Returned("computeAllBothWays")
  /\ SeqSum(libOut.given[1]) > 0 /\ SeqSum(libOut.given[2]) > 0
  /\ \A i \in 1..GridN : libOut.given[1][i] >= 0 /\ libOut.given[2][i] >= 0

\* C22, as stated: for two non-negative densities of positive mass the tv of
\* computeAll lies in [0, 1].
C22_TvInUnit ==
  PairOfPositiveMass => (libOut.value.pq.tv >= 0 /\ libOut.value.pq.tv <= U)

\* C22, amended: tv is at least 0 and exceeds 1 by no more than the rounding
\* of the two normalized masses (one rounding per cell).
C22_TvInUnitRounded ==
  PairOfPositiveMass =>
    (libOut.value.pq.tv >= 0 /\ libOut.value.pq.tv <= U + GridN)

\* Two densities on disjoint cells, of masses other than 1.
C22_Witness ==
  /\ PairOfPositiveMass
  /\ \A i \in 1..GridN : libOut.given[1][i] = 0 \/ libOut.given[2][i] = 0
  /\ sum(libOut.given[1], libDx) # U /\ sum(libOut.given[2], libDx) # U
  /\ libOut.value.pq.tv >= U - GridN


\* Math.log(2) at the model's resolution.
Ln2 == KLn2(1)

\* The two densities of the pair call share no cell.
DisjointPair ==
  \A i \in 1..GridN : libOut.given[1][i] = 0 \/ libOut.given[2][i] = 0

C24_WitnessInside ==
  /\ PairOfPositiveMass /\ ~DisjointPair
  /\ libOut.value.pq.js > GridN /\ libOut.value.pq.js < Ln2 \div 2


(***************************************************************************)
(* The fits of the optimizer tests: one Gaussian fitted to the asymmetric  *)
(* bimodal target under either direction of KL.                            *)
(***************************************************************************)
\* init of the KL(P||Q) test is Unimodal; init of the KL(Q||P) test.
OffCenter == << Comp(2 * U, U \div 2, U) >>

DescentStarts == {Unimodal, OffCenter}
DescentObjectives == {"kl_pq", "kl_qp"}
\* lr: 0.1 and lr: 0.12
DescentRates == {U \div 10, (12 * U) \div 100}

DescentCall ==
  \E init \in DescentStarts, obj \in DescentObjectives, n \in 0..MaxSteps,
     lr \in DescentRates, cb \in BOOLEAN, ab \in BOOLEAN :
       Begin(Gauss, init, PageSetting, obj, n, lr, cb, ab)

DescentNext ==
  \/ DescentCall
  \/ LoopHead
  \/ Step
  \/ Notify
  \/ AnimationFrame
  \/ Timeout
  \/ Return
  \/ Settle
  \/ Stop
  \/ Withdraw

DescentSpec == Init /\ [][DescentNext]_vars

\* computeAll(densityOnGrid(comps, grid, dx), qY, dx)[objective], as the
\* tests evaluate a mixture.
valueOfMixture(mixture, o) ==
  objectiveValue(densityOnGrid(mixture, o.grid, o.dx), o.targetY, o.dx, o.objective)

\* The call ran all of its steps, at least one, and has returned.
RanInFull ==
  pc = "done" /\ left = "cond" /\ opts.steps >= 1 /\ Len(history) = opts.steps

\* C23: after a full, uncancelled run of a single Gaussian on the asymmetric
\* bimodal target under KL(P||Q) or KL(Q||P), the objective value of the
\* final mixture is lower than that of the initial mixture.
C23_ObjectiveDecreases ==
  RanInFull => valueOfMixture(result.comps, opts) < valueOfMixture(opts.initial, opts)

\* A full run of MaxSteps steps from the off-center start under KL(Q||P).
C23_Witness ==
  /\ RanInFull /\ opts.steps = MaxSteps
  /\ opts.initial = OffCenter /\ opts.objective = "kl_qp"
  /\ valueOfMixture(result.comps, opts) < valueOfMixture(opts.initial, opts)


\* width of histogramDensity for the domain of the calls explored.
histWidth(bins) == RDiv(Domain[2] - Domain[1], bins)

\* The samples x of s with lo <= x < hi.
SamplesIn(s, lo, hi) == Cardinality({j \in 1..Len(s) : s[j] >= lo /\ s[j] < hi})

\* The sum over the bins of height times width.
histMass(h, bins) == sum(h.ys, histWidth(bins))

\* n / N at the model's resolution.
ShareOf(n, s) == RDiv(n * U, Len(s))

\* Rounding of the heights and of their sum: half a unit per sample and bin
\* counted.
HistTol == MaxSamples + 1

\* How far bins * width may lie from the domain's length: half a unit per bin.
EdgeOf(bins) == bins

\* C25, as stated: the samples in [min, max) are each counted once and the
\* others ignored, so that height times width sums to (in-range samples) / N
\* (here: up to the rounding of the heights), at most 1, and 1 when all
\* samples are in range.
C25_HalfOpenDomain ==
  Returned("histogramDensity") =>
    LET s == libOut.given.samples
        b == libOut.given.bins
        inRange == SamplesIn(s, Domain[1], Domain[2])
        mass == histMass(libOut.value, b)
    IN  /\ Abs(mass - ShareOf(inRange, s)) <= HistTol
        /\ mass <= U + HistTol
        /\ inRange = Len(s) => Abs(mass - U) <= HistTol

\* C25, amended: a sample is counted in bin floor((x - min) / width) when
\* that index is a bin, width being the rounded (max - min) / bins.  Every
\* sample in [min, max) further than the rounding of bins * width below max
\* is counted once, in the bin whose interval holds it; every sample below
\* min or further than that rounding above max is ignored; a sample within
\* that rounding of max may or may not be counted.  Height times width sums
\* to (counted samples) / N up to rounding.
C25_HalfOpenRounded ==
  Returned("histogramDensity") =>
    LET s == libOut.given.samples
        b == libOut.given.bins
        w == histWidth(b)
        inside == SamplesIn(s, Domain[1], Domain[2] - EdgeOf(b))
        within == SamplesIn(s, Domain[1], Domain[2] + EdgeOf(b))
        mass == histMass(libOut.value, b)
    IN  /\ mass >= ShareOf(inside, s) - HistTol
        /\ mass <= ShareOf(within, s) + HistTol
        /\ mass <= U + HistTol
        /\ inside = Len(s) => Abs(mass - U) <= HistTol
        /\ \A i \in 1..(b - 1) :
             Abs(FMul(libOut.value.ys[i], w)
                   - ShareOf(SamplesIn(s, Domain[1] + (i - 1) * w, Domain[1] + i * w), s))
               <= HistTol

\* MaxSamples samples in bins of a width that is not a whole number of
\* units: one below the domain, one inside it, one just under its maximum.
C25_Witness ==
  /\ Returned("histogramDensity")
  /\ libOut.given.bins = GridN
  /\ libOut.given.samples = [j \in 1..MaxSamples |->
        IF j = 1 THEN Domain[1] - 1 ELSE IF j = 2 THEN 13000 ELSE Domain[2] - 1]
  /\ histMass(libOut.value, GridN) > 0
  /\ histMass(libOut.value, GridN) < U - HistTol

\* Every sample in range and away from the maximum: the mass is 1.
C25_WitnessAllInRange ==
  /\ Returned("histogramDensity")
  /\ Len(libOut.given.samples) = MaxSamples
  /\ SamplesIn(libOut.given.samples, Domain[1], Domain[2] - EdgeOf(libOut.given.bins))
       = MaxSamples
  /\ Abs(histMass(libOut.value, libOut.given.bins) - U) <= HistTol


\* Component i of the central difference of the fit's objective at th: two
\* evaluations, on th with coordinate i raised and lowered by eps[i].
centralDifference(o, th, tY, g, i) ==
  LET f == objectiveClosure(o.model, tY, g, o.dx, o.objective)
      e == makeEps(o.model, Domain)[i]
  IN  FDiv(applyClosure(f, [th EXCEPT ![i] = @ + e])
             - applyClosure(f, [th EXCEPT ![i] = @ - e]), 2 * e)

\* The clamp of coordinate i: the means are held in the domain.
clampedAt(o, i, x) ==
  IF i <= CountOf(o.model) THEN Max(Domain[1], Min(Domain[2], x)) ELSE x

\* C26: in one step every gradient component is the central difference at
\* the vector the step began with, and every coordinate i then becomes
\* theta_i - lr * g_i (the means clamped): no component sees another
\* coordinate's update.
C26_GradientFromStepStart ==
  [][(pc = "grad" /\ pc' = "notify") =>
       /\ Len(theta') = Len(theta)
       /\ \A i \in 1..Len(theta) :
            theta'[i] = clampedAt(opts, i,
                          theta[i] - FMul(opts.lr,
                            centralDifference(opts, theta, targetY, grid, i)))]_vars

\* The first step of a fit has moved both coordinates, and updating them in
\* turn would have led elsewhere.
C26_Witness ==
  /\ pc = "notify" /\ Len(history) = 1
  /\ LET th0 == packParams(opts.model, opts.initial)
     IN  /\ theta = stepTheta(opts, th0, targetY, grid)
         /\ \A i \in 1..Len(theta) : theta[i] # th0[i]
         /\ theta # stepThetaInTurn(opts, th0, targetY, grid)


\* C27: the value pushed by a step is the objective at the vector after the
\* step's update and clamp, the vector whose decoding the callback is given;
\* so once a fit has made a step, the last entry of history is the objective
\* of the mixture the fit returns, whether or not it was cancelled.
C27_HistoryAfterUpdate ==
  /\ (pc # "idle" /\ Len(history) >= 1) =>
       history[Len(history)] =
         objectiveForTheta(opts.model, theta, targetY, grid, opts.dx, opts.objective)
  /\ \A j \in 1..Len(updates) :
       /\ updates[j].value = valueOfMixture(updates[j].comps, opts)
       /\ updates[j].value = history[updates[j].step + 1]
  /\ (pc = "done" /\ Len(result.history) >= 1) =>
       result.history[Len(result.history)] = valueOfMixture(result.comps, opts)

\* A fit cancelled after its first step has returned; the one value of its
\* history is that of the mixture returned, not that of the initial one.
C27_Witness ==
  /\ pc = "done" /\ left = "break" /\ Len(result.history) = 1
  /\ result.history[1] = valueOfMixture(result.comps, opts)
  /\ result.history[1] #
       objectiveForTheta(opts.model, packParams(opts.model, opts.initial),
                         targetY, grid, opts.dx, opts.objective)


(***************************************************************************)
(* pages/Divergence: the page's state, its controls and its fit.           *)
(***************************************************************************)
\* Largest number of edits of P and Q, and of fits started, in a session.
MaxEdits == 4
MaxFits == 2

\* The fits of a session with edits: one fit of one step.  The fits of a
\* session without: MaxFits fits of up to MaxSteps steps.
EditedFits == [fits |-> 1, steps |-> {1}]
PlainFits == [fits |-> MaxFits, steps |-> 1..MaxSteps]

\* defaultMixture(kind)
Bimodal == << Comp(-15000, 7000, 5000), Comp(12000, 9000, 5000) >>
defaultMixture(kind) ==
  CASE kind = "unimodal" -> Unimodal
    [] kind = "trimodal" -> Trimodal
    [] OTHER -> Bimodal

Presets == {"unimodal", "bimodal", "trimodal"}
Lists == {"p", "q"}

\* The page after its first render.
PageInit ==
  /\ FitInit /\ RtIdle /\ PeerIdle /\ LibIdle
  /\ running = FALSE
  /\ pComps = defaultMixture("unimodal")
  /\ qComps = PageTarget
  /\ fitPath = <<>> /\ fits = 0 /\ edits = 0

\* The event loop is free to run an event handler: no call of the optimizer
\* is in the middle of its synchronous code.
PageFree == pc \in {"idle", "suspended", "done", "rejected"}

compsOf(which) == IF which = "p" THEN pComps ELSE qComps

\* The state updater chosen by which.
Updated(which, next) ==
  IF which = "p" THEN pComps' = next /\ UNCHANGED qComps
  ELSE qComps' = next /\ UNCHANGED pComps

\* const cap = which === 'p' ? 1 : 6
capOf(which) == IF which = "p" THEN 1 ELSE 6

\* The props of the two ComponentList elements.
disabledOf(which) == which = "p" /\ running
maxComponents(which) == IF which = "p" THEN 1 ELSE 6

\* disabled of the Add button and of a Remove button.
AddDisabled(which) ==
  disabledOf(which) \/ Len(compsOf(which)) >= maxComponents(which)

\* Mutant of RemoveDisabled: the last component may be removed.
RemoveDisabledWhileRunning(which) == disabledOf(which)

RemoveDisabled(which) == disabledOf(which) \/ Len(compsOf(which)) <= 1

\* prev.filter((_, i) => i !== index), index counted from 1.
Without(prev, index) ==
  Strict([j \in 1..(Len(prev) - 1) |-> IF j < index THEN prev[j] ELSE prev[j + 1]])

\* An edit leaves the fit and its flag alone.
EditFrame ==
  /\ edits < MaxEdits /\ edits' = edits + 1
  /\ UNCHANGED <<fitVars, rtVars, peer, libVars, running, fitPath, fits>>

\* The Add button of a list: addComp(which).
AddComp ==
  \E which \in Lists :
    /\ PageFree /\ ~AddDisabled(which)
    /\ Updated(which,
         IF Len(compsOf(which)) >= capOf(which) THEN compsOf(which)
         ELSE Append(compsOf(which), Comp(0, 8000, 2000)))
    /\ EditFrame

\* A Remove button of a list: removeComp(which, index).
RemoveComp ==
  \E which \in Lists :
    \E index \in 1..Len(compsOf(which)) :
      /\ PageFree /\ ~RemoveDisabled(which)
      /\ Updated(which, Without(compsOf(which), index))
      /\ EditFrame

\* A preset button: reset('q', preset).
Reset ==
  \E preset \in Presets :
    /\ PageFree
    /\ qComps' = defaultMixture(preset) /\ UNCHANGED pComps
    /\ EditFrame

\* The means and scales a marker or a slider is moved to.
Patches == {[field |-> "mean", to |-> U], [field |-> "sigma", to |-> U \div 2]}

\* { ...c, ...patch }
Patched(c, patch) ==
  IF patch.field = "mean" THEN [c EXCEPT !.mean = patch.to]
  ELSE [c EXCEPT !.sigma = patch.to]

\* A marker dragged in the plot, or a scale slider moved while enabled:
\* updateComp(which, index, patch).
Drag ==
  \E which \in Lists, patch \in Patches :
    \E index \in 1..Len(compsOf(which)) :
      /\ PageFree
      /\ patch.field = "sigma" => ~disabledOf(which)
      /\ Updated(which, [compsOf(which) EXCEPT ![index] = Patched(@, patch)])
      /\ EditFrame

\* The objectives, step counts and rates chosen in the model panel.
PageObjectives == {"kl_qp"}
PageRates == {2000}

\* { mean: c.mean, sigma: c.sigma }
pathPoint(c) == [mean |-> c.mean, sigma |-> c.sigma]

\* Mutant of flagAtFit: the flag is left as the last fit left it.
flagKeptAtFit(flag) == flag

\* abortRef.current = false
flagAtFit(flag) == FALSE

\* The Fit button: onFit up to its await.  The flag is set and the request
\* cleared; pComps[0] is read before the try, so that without a component
\* the handler throws there; otherwise fitModelToTarget is called on the
\* page's state and runs up to its first loop head.
OnFit(budget) ==
  /\ ~running /\ pc = "idle" /\ fits < budget.fits
  /\ running' = TRUE /\ fits' = fits + 1
  /\ abortRef' = flagAtFit(abortRef)
  /\ IF pComps = <<>>
     THEN UNCHANGED <<pc, opts, targetY, theta, t, history, comps, value, left,
                      result, waiting, polls, updates, yields, resumes, again,
                      raisedAt, raisedIn, initial, grid, fitPath>>
     ELSE \E obj \in PageObjectives, n \in budget.steps, lr \in PageRates :
            /\ fitPath' = << pathPoint(pComps[1]) >>
            /\ opts' = [model |-> Gauss, initial |-> pComps,
                        targetY |-> densityOnGrid(qComps, Grid, Dx),
                        grid |-> Grid, dx |-> Dx, objective |-> obj,
                        steps |-> n, lr |-> lr, onUpdate |-> TRUE,
                        abortSignal |-> TRUE]
            /\ theta' = packParams(Gauss, pComps)
            /\ initial' = arrayAfterPack(Gauss, pComps)
            /\ again' = (left = "break" /\ abortRef)
            /\ targetY' = opts'.targetY /\ grid' = Grid
            /\ pc' = "loop" /\ t' = 0 /\ history' = <<>> /\ comps' = <<>>
            /\ value' = 0 /\ left' = "" /\ result' = <<>> /\ waiting' = ""
            /\ polls' = <<>> /\ updates' = <<>> /\ yields' = 0 /\ resumes' = 0
            /\ raisedAt' = (IF abortRef' THEN 0 ELSE -1)
            /\ raisedIn' = (IF abortRef' THEN "idle" ELSE "")
  /\ UNCHANGED <<rtVars, peer, libVars, pComps, qComps, edits>>

\* The Stop button, shown while the flag is set: onStop.
OnStop == running /\ PageFree /\ Stop

\* The page's onUpdate, then await yieldTick(): setPComps(comps) and the
\* path extended by comps[0].
PageNotify ==
  /\ pc = "notify"
  /\ updates' = Append(updates, updateArgs(comps, t, value))
  /\ pComps' = comps
  /\ fitPath' = Append(fitPath, pathPoint(comps[1]))
  /\ \E hasRAF \in BOOLEAN : waiting' = yieldTick(hasRAF)
  /\ yields' = yields + 1
  /\ pc' = "suspended"
  /\ UNCHANGED <<opts, targetY, theta, t, history, comps, value, left, result,
                 abortRef, polls, resumes, again, raisedAt, raisedIn, rtVars,
                 initial, grid, peer, libVars, running, qComps, fits, edits>>

\* An exception raised while the optimizer computes a step or while the
\* callback runs: the promise of the call is rejected.
Throw ==
  /\ pc \in {"grad", "notify"}
  /\ pc' = "rejected"
  /\ UNCHANGED <<opts, targetY, theta, t, history, comps, value, left, result,
                 waiting, abortRef, polls, updates, yields, resumes, again,
                 raisedAt, raisedIn, rtVars, initial, grid, peer, libVars,
                 pageVars>>

\* Mutant of flagAtSettled: the flag is cleared after a fulfilled promise
\* only.
flagAtFulfilled(at) == at # "done"

\* finally { setRunning(false) }
flagAtSettled(at) == FALSE

\* The promise of the call has settled: onFit runs on through its finally
\* block, whether the promise was fulfilled or rejected.
Finally ==
  /\ pc \in {"done", "rejected"}
  /\ running' = flagAtSettled(pc)
  /\ pc' = "idle" /\ opts' = NoOpts /\ targetY' = <<>> /\ theta' = <<>> /\ t' = 0
  /\ history' = <<>> /\ comps' = <<>> /\ value' = 0 /\ result' = <<>>
  /\ polls' = <<>> /\ updates' = <<>> /\ yields' = 0 /\ resumes' = 0
  /\ again' = FALSE
  /\ raisedAt' = (IF abortRef THEN 0 ELSE -1)
  /\ raisedIn' = (IF abortRef THEN "idle" ELSE "")
  /\ initial' = <<>> /\ grid' = <<>>
  /\ UNCHANGED <<left, waiting, abortRef, rtVars, peer, libVars, pComps,
                 qComps, fitPath, fits, edits>>

\* The Fit button in a session with edits, and in one without.
FitAmongEdits == OnFit(EditedFits)
FitAlone == OnFit(PlainFits)

\* The page left alone but for Fit and Stop.
FitPageNext ==
  \/ FitAlone
  \/ OnStop
  \/ LoopHead
  \/ Step
  \/ PageNotify
  \/ AnimationFrame
  \/ Timeout
  \/ Return
  \/ Throw
  \/ Finally

FitPageSpec == PageInit /\ [][FitPageNext]_vars

\* The same with the event loop's guarantees, as in LiveSpec, and with
\* onFit's continuation run once the promise has settled.
FitPageLiveSpec ==
  /\ FitPageSpec
  /\ WF_vars(LoopHead) /\ WF_pc(StepTaken) /\ WF_vars(PageNotify)
  /\ WF_vars(AnimationFrame) /\ WF_vars(Timeout) /\ WF_pc(ReturnTaken)
  /\ WF_vars(Finally)

PageNext ==
  \/ AddComp
  \/ RemoveComp
  \/ Reset
  \/ Drag
  \/ FitAmongEdits
  \/ OnStop
  \/ LoopHead
  \/ Step
  \/ PageNotify
  \/ AnimationFrame
  \/ Timeout
  \/ Return
  \/ Throw
  \/ Finally

PageSpec == PageInit /\ [][PageNext]_vars


\* C28: every fit of the page starts with the cancellation flag cleared, so
\* the first answer of the predicate is false and a fit of at least one step
\* makes a step, whatever Stop did before the fit started; a fit that ended
\* early ended on a Stop pressed while it was suspended, after a step.
C28_FitClearsStop ==
  /\ (pc # "idle" /\ polls # <<>>) => ~polls[1]
  /\ (pc \in {"done"} /\ left # "") => Len(result.history) >= 1
  /\ (pc \in {"return", "done"} /\ left = "break") =>
       abortRef /\ raisedIn = "suspended" /\ raisedAt >= 1

\* The fit after a cancelled one, the flag still set when Fit was pressed,
\* ran all of its steps.
C28_Witness ==
  /\ pc = "done" /\ again /\ fits = MaxFits
  /\ left = "cond" /\ Len(result.history) = opts.steps
  /\ \A j \in 1..Len(polls) : ~polls[j]

\* C29: the running flag is set exactly while a fit of the page is under
\* way, and a set flag is always cleared again: after the fit's steps, after
\* Stop, and after an exception in the optimizer or the callback alike.
C29_RunningCleared ==
  /\ [](running <=> pc # "idle")
  /\ (running ~> ~running)

\* A fit was rejected before its first step was complete (it left the loop
\* by neither way), and the flag is cleared.
C29_Witness ==
  /\ pc = "idle" /\ ~running /\ fits >= 1 /\ left = ""

\* A cancelled fit has settled, and the flag is cleared.
C29_WitnessStopped ==
  /\ pc = "idle" /\ ~running /\ fits >= 1 /\ left = "break" /\ abortRef

C30_WitnessSingle ==
  /\ Len(qComps) = 1 /\ RemoveDisabled("q") /\ edits = MaxEdits

====
